---- MODULE Spec2Model ----
(***************************************************************************)
(* Model of portage-set-helper (src/go.py): the entry model (Comment /     *)
(* EBuild), the line parser, the USE-flag ordering, the validator, the     *)
(* three-destination formatter and the orchestration in main().            *)
(*                                                                         *)
(* Strings are sequences of code points, so that str.split, str.lstrip,    *)
(* str.sort and the % formatting are computed, not assumed.                *)
(*                                                                         *)
(* src/portage-set-helper.py is an earlier draft of the same program; it   *)
(* does not compile (class statements without ':' at lines 9 and 14), so   *)
(* the behaviour modelled here is that of go.py.                           *)
(*                                                                         *)
(* Spec     a PortageSet over a one-line file, used through its methods    *)
(* SpecRun  a run of main() over one or more set files                     *)
(***************************************************************************)
EXTENDS Integers, Sequences, FiniteSets, TLC

VARIABLES
    \* --- one PortageSet over a one-line file, used through its methods ---
    src,            \* the input: [lead |-> whitespace, toks |-> tokens]
    pset,           \* the PortageSet object: [state, entries]
    last,           \* the last method call on the set or its entry, what it
                    \* returned, and the call before it
    \* --- one run of main() ---
    args,           \* parsed command line: [force, strict, sets]
    existing,       \* output paths present on disk before the run
    portage_sets,   \* list of PortageSet objects, one per args.sets
    pc,             \* position in main()
    k,              \* index of the loop main() is in
    checks,         \* calls of Entry.check so far: [set, line_no, ret]
    written,        \* output files opened with 'w' so far, in order
    status          \* process exit status, -1 while running

entryVars == <<src, pset, last>>
runVars   == <<args, existing, portage_sets, pc, k, checks, written, status>>
vars      == <<src, pset, last, args, existing, portage_sets, pc, k, checks,
               written, status>>

-----------------------------------------------------------------------------
\* Bounds of the model
MaxUses == 3        \* USE-flag tokens on one line
MaxSets == 2        \* set files on one command line

-----------------------------------------------------------------------------
\* Characters the program tests for
Tab   == 9
Space == 32
Bang  == 33
Hash  == 35
Plus  == 43
Dash  == 45

WhiteSpace == {Tab, Space}

SetOf(l) == {l[i] : i \in 1..Len(l)}

\* Python str comparison: lexicographic over code points
RECURSIVE StrLess(_, _)
StrLess(a, b) ==
    IF b = <<>> THEN FALSE
    ELSE IF a = <<>> THEN TRUE
    ELSE IF a[1] # b[1] THEN a[1] < b[1]
    ELSE StrLess(Tail(a), Tail(b))

\* str.lstrip()
RECURSIVE lstrip(_)
lstrip(s) ==
    IF s # <<>> /\ s[1] \in WhiteSpace THEN lstrip(Tail(s)) ELSE s

\* str.split(): maximal runs of non-whitespace, no empty tokens
RECURSIVE SplitFrom(_, _, _)
SplitFrom(s, cur, acc) ==
    IF s = <<>> THEN (IF cur = <<>> THEN acc ELSE Append(acc, cur))
    ELSE IF s[1] \in WhiteSpace
         THEN SplitFrom(Tail(s), <<>>, IF cur = <<>> THEN acc ELSE Append(acc, cur))
         ELSE SplitFrom(Tail(s), Append(cur, s[1]), acc)

split(s) == SplitFrom(s, <<>>, <<>>)

\* ' '.join(list)
RECURSIVE join(_)
join(l) ==
    IF l = <<>> THEN <<>>
    ELSE IF Len(l) = 1 THEN l[1]
    ELSE l[1] \o <<Space>> \o join(Tail(l))

-----------------------------------------------------------------------------
\* list.sort(): stable insertion of x behind every element that is not
\* greater than it
RECURSIVE InsertAlpha(_, _)
InsertAlpha(x, l) ==
    IF l = <<>> THEN <<x>>
    ELSE IF StrLess(x, l[1]) THEN <<x>> \o l
    ELSE <<l[1]>> \o InsertAlpha(x, Tail(l))

RECURSIVE SortAlphaFrom(_, _)
SortAlphaFrom(l, acc) ==
    IF l = <<>> THEN acc ELSE SortAlphaFrom(Tail(l), InsertAlpha(l[1], acc))

sort_alpha(l) == SortAlphaFrom(l, <<>>)

\* key=lambda x: x[0]==c  (False sorts before True)
StartsWith(x, c) == IF x[1] = c THEN 1 ELSE 0

RECURSIVE InsertByKey(_, _, _)
InsertByKey(x, l, c) ==
    IF l = <<>> THEN <<x>>
    ELSE IF StartsWith(x, c) < StartsWith(l[1], c) THEN <<x>> \o l
    ELSE <<l[1]>> \o InsertByKey(x, Tail(l), c)

RECURSIVE SortByKeyFrom(_, _, _)
SortByKeyFrom(l, acc, c) ==
    IF l = <<>> THEN acc
    ELSE SortByKeyFrom(Tail(l), InsertByKey(l[1], acc, c), c)

sort_key(l, c) == SortByKeyFrom(l, <<>>, c)

\* The last two sorts in the other order
sort_uses_dash_first(l) == sort_key(sort_key(sort_alpha(l), Dash), Plus)

\* The three sorts of EBuild.__init__, in the code's order
sort_uses(l) == sort_key(sort_key(sort_alpha(l), Plus), Dash)

-----------------------------------------------------------------------------
\* Entry model

\* Comment(path, line, line_no)
Comment(path, line, line_no) ==
    [kind |-> "Comment", path |-> path, line |-> line, line_no |-> line_no]

\* What a constructor or a lookup leaves behind when it raises
IndexError == [kind |-> "IndexError"]

\* An EBuild that tests for '-' with `if` instead of `elif`
EBuild_two_markers(path, line, line_no) ==
    LET tokens0 == split(line)
    IN  IF tokens0 = <<>> THEN IndexError
        ELSE
        LET keyword == (tokens0[1] = <<Bang>>)
            tokens1 == IF keyword THEN Tail(tokens0) ELSE tokens0
        IN  IF tokens1 = <<>> THEN IndexError
            ELSE
            LET skip   == (tokens1[1] = <<Dash>>)
                tokens == IF skip THEN Tail(tokens1) ELSE tokens1
            IN  IF tokens = <<>> THEN IndexError
                ELSE [kind    |-> "EBuild",
                      path    |-> path,
                      line    |-> line,
                      line_no |-> line_no,
                      keyword |-> keyword,
                      skip    |-> skip,
                      cpv     |-> tokens[1],
                      uses    |-> sort_key(sort_key(sort_alpha(Tail(tokens)),
                                                    Plus), Dash)]

\* EBuild(path, line, line_no): tokens[0] raises IndexError on an empty list
EBuild(path, line, line_no) ==
    LET tokens0 == split(line)
    IN  IF tokens0 = <<>> THEN IndexError
        ELSE
        LET keyword == (tokens0[1] = <<Bang>>)
            skip    == (tokens0[1] # <<Bang>> /\ tokens0[1] = <<Dash>>)
            tokens  == IF keyword \/ skip THEN Tail(tokens0) ELSE tokens0
        IN  IF tokens = <<>> THEN IndexError
            ELSE [kind    |-> "EBuild",
                  path    |-> path,
                  line    |-> line,
                  line_no |-> line_no,
                  keyword |-> keyword,
                  skip    |-> skip,
                  cpv     |-> tokens[1],
                  uses    |-> sort_uses(Tail(tokens))]

\* One iteration of the loop of PortageSet.import_set:
\* `not line or line.lstrip()[0] == '#'`
import_line(path, line, line_no) ==
    IF line = <<>> THEN Comment(path, line, line_no)
    ELSE IF lstrip(line) = <<>> THEN IndexError
    ELSE IF lstrip(line)[1] = Hash THEN Comment(path, line, line_no)
    ELSE EBuild(path, line, line_no)

\* PortageSet.import_set: entries appended line by line; the first exception
\* leaves the loop with the entries appended so far
RECURSIVE ImportFrom(_, _, _, _)
ImportFrom(path, lines, line_no, acc) ==
    IF line_no > Len(lines) THEN [state |-> "imported", entries |-> acc]
    ELSE LET e == import_line(path, lines[line_no], line_no)
         IN  IF e.kind = "IndexError"
             THEN [state |-> "raised", entries |-> acc]
             ELSE ImportFrom(path, lines, line_no + 1, Append(acc, e))

import_set(path, lines) == ImportFrom(path, lines, 1, <<>>)

\* PortageSet(path)
PortageSet == [state |-> "new", entries |-> <<>>]

-----------------------------------------------------------------------------
\* Validator

\* A filter that forgets the '-' sign
filtered_use_plus_only(use) == IF use[1] = Plus THEN Tail(use) ELSE use

\* filtered_use: one leading '+' or '-' removed
filtered_use(use) == IF use[1] \in {Plus, Dash} THEN Tail(use) ELSE use

\* A check that goes on to the next query after a failure
ebuild_check_all_queries(e, db) ==
    LET q1 == [q |-> "isvalidatom", arg |-> e.cpv, ans |-> db.valid]
        q2 == [q |-> "xmatch", arg |-> e.cpv, ans |-> db.match]
        q3 == [q |-> "aux_get", arg |-> db.match, ans |-> db.iuse]
        ebuild_uses  == {filtered_use(u) : u \in SetOf(split(db.iuse))}
        given_uses   == {filtered_use(u) : u \in SetOf(e.uses)}
        unknown_uses == given_uses \ ebuild_uses
    IN  [ret     |-> db.valid /\ db.match # <<>> /\ unknown_uses = {},
         log     |-> <<q1, q2, q3>>,
         unknown |-> unknown_uses]

\* EBuild.check against a database db = [valid, match, iuse]:
\*   valid  isvalidatom(cpv)
\*   match  xmatch(origdep=cpv, level='bestmatch-visible'), '' for no match
\*   iuse   aux_get(match, ['IUSE'])[0]
\* log lists the queries made, each with the answer it got.
ebuild_check(e, db) ==
    LET q1 == [q |-> "isvalidatom", arg |-> e.cpv, ans |-> db.valid]
        q2 == [q |-> "xmatch", arg |-> e.cpv, ans |-> db.match]
        q3 == [q |-> "aux_get", arg |-> db.match, ans |-> db.iuse]
        ebuild_uses  == {filtered_use(u) : u \in SetOf(split(db.iuse))}
        given_uses   == {filtered_use(u) : u \in SetOf(e.uses)}
        unknown_uses == given_uses \ ebuild_uses
    IN  IF ~db.valid
        THEN [ret |-> FALSE, log |-> <<q1>>, unknown |-> {}]
        ELSE IF db.match = <<>>
        THEN [ret |-> FALSE, log |-> <<q1, q2>>, unknown |-> {}]
        ELSE IF unknown_uses # {}
        THEN [ret |-> FALSE, log |-> <<q1, q2, q3>>, unknown |-> unknown_uses]
        ELSE [ret |-> TRUE, log |-> <<q1, q2, q3>>, unknown |-> {}]

\* Comment.check
comment_check == [ret |-> TRUE, log |-> <<>>, unknown |-> {}]

\* entry.check(), by the class of the entry
entry_check(e, db) ==
    IF e.kind = "Comment" THEN comment_check ELSE ebuild_check(e, db)

-----------------------------------------------------------------------------
\* Display rendering
Esc(code) == <<27, 91>> \o code \o <<109>>      \* '\033[<code>m'
Reset  == Esc(<<48>>)                            \* '\033[0m'
Green  == Esc(<<51, 50>>)                        \* '\033[32m'
Blue   == Esc(<<51, 52>>)                        \* '\033[34m'
Red    == Esc(<<51, 49>>)                        \* '\033[31m'
White  == Esc(<<57, 55>>)                        \* '\033[97m'
Dim    == Esc(<<50>>)                            \* '\033[2m'

pretty_use(use) ==
    IF use[1] = Plus THEN Blue \o use \o Reset
    ELSE IF use[1] = Dash THEN Red \o use \o Reset
    ELSE White \o use \o Reset

\* EBuild.pretty_print(color)
ebuild_pretty_print(e, color) ==
    IF color
    THEN Green \o e.cpv \o Reset \o <<Space>>
         \o join([i \in 1..Len(e.uses) |-> pretty_use(e.uses[i])])
    ELSE e.cpv \o <<Space>> \o join(e.uses)

\* Comment.pretty_print(prefix, color)
comment_pretty_print(e, prefix, color) ==
    IF color THEN prefix \o Dim \o e.line \o Reset ELSE e.line

-----------------------------------------------------------------------------
\* Formatter
Destinations == <<"package.accept_keywords", "package.use", "sets">>

SkippedSuffix == <<32, 40, 115, 107, 105, 112, 112, 101, 100, 41>>  \* ' (skipped)'

\* A formatter that comments a skipped entry out of package.use too
ebuild_formatted_skip_use(e, destination) ==
    IF destination = "package.accept_keywords"
    THEN (IF e.keyword THEN e.cpv ELSE <<Hash>> \o e.cpv)
    ELSE IF destination = "package.use"
    THEN (IF e.uses # <<>> /\ ~e.skip THEN e.cpv \o <<Space>> \o join(e.uses)
          ELSE <<Hash>> \o e.cpv)
    ELSE (IF e.skip THEN <<Hash>> \o e.cpv \o SkippedSuffix ELSE e.cpv)

\* A formatter that lists the flags in the set file as well
ebuild_formatted_sets_uses(e, destination) ==
    IF destination = "package.accept_keywords"
    THEN (IF e.keyword THEN e.cpv ELSE <<Hash>> \o e.cpv)
    ELSE IF destination = "package.use"
    THEN (IF e.uses # <<>> THEN e.cpv \o <<Space>> \o join(e.uses)
          ELSE <<Hash>> \o e.cpv)
    ELSE (IF e.skip THEN <<Hash>> \o e.cpv \o SkippedSuffix
          ELSE join(<<e.cpv>> \o e.uses))

\* EBuild.formatted(destination)
ebuild_formatted(e, destination) ==
    IF destination = "package.accept_keywords"
    THEN (IF e.keyword THEN e.cpv ELSE <<Hash>> \o e.cpv)
    ELSE IF destination = "package.use"
    THEN (IF e.uses # <<>> THEN e.cpv \o <<Space>> \o join(e.uses)
          ELSE <<Hash>> \o e.cpv)
    ELSE (IF e.skip THEN <<Hash>> \o e.cpv \o SkippedSuffix ELSE e.cpv)

\* Comment.formatted(destination)
comment_formatted(e, destination) == e.line

formatted(e, destination) ==
    IF e.kind = "Comment" THEN comment_formatted(e, destination)
    ELSE ebuild_formatted(e, destination)

-----------------------------------------------------------------------------
\* Inputs: tokens, lines and database answers

TokA     == <<97>>              \* 'a'
TokB     == <<98>>              \* 'b'
TokPlusA == <<Plus, 97>>        \* '+a'
TokPlusB == <<Plus, 98>>        \* '+b'
TokDashA == <<Dash, 97>>        \* '-a'
TokDash  == <<Dash>>            \* '-'
TokBang  == <<Bang>>            \* '!'
TokHashA == <<Hash, 97>>        \* '#a'
TokBangA == <<Bang, 97>>        \* '!a'

\* What a line starts with: nothing, a marker, an atom, a marker and an
\* atom, a comment, two markers
Heads ==
    { <<>>, <<TokBang>>, <<TokDash>>, <<TokA>>, <<TokBang, TokA>>,
      <<TokDash, TokA>>, <<TokHashA>>, <<TokBangA>>, <<TokBang, TokDash>>,
      <<TokDash, TokBang>>, <<TokA, TokDash>> }

Flags == {TokA, TokB, TokPlusA, TokPlusB, TokDashA}

RECURSIVE SeqsUpTo(_, _)
SeqsUpTo(S, n) ==
    IF n = 0 THEN {<<>>}
    ELSE LET shorter == SeqsUpTo(S, n - 1)
         IN  shorter \cup {Append(l, x) : l \in shorter, x \in S}

Leads == {<<>>, <<Space, Tab>>}

\* The text of a line: leading whitespace, then the tokens one space apart
Render(lead, toks) == lead \o join(toks)

Line == Render(src.lead, src.toks)

\* Database answers
Matches     == {<<>>, <<97, 45, 49>>}                     \* '' or 'a-1'
IuseStrings == {<<>>, TokA, TokPlusA \o <<Space>> \o <<Dash, 98>>,
                TokB \o <<Space, Space>> \o TokDash}
\* An atom that is no atom matches nothing, and no match declares nothing
DBs == {db \in [valid : BOOLEAN, match : Matches, iuse : IuseStrings] :
          /\ ~db.valid => db.match = <<>>
          /\ db.match = <<>> => db.iuse = <<>>}

\* Lines: every head followed by up to MaxUses flags, and every head behind
\* leading whitespace
Inputs ==
    {[lead |-> <<>>, toks |-> h \o f] : h \in Heads, f \in SeqsUpTo(Flags, MaxUses)}
    \cup {[lead |-> l, toks |-> h] : l \in Leads, h \in Heads}

NoCall == [op |-> "none", prev |-> "none"]

\* The run of main() is not started
RunIdle ==
    /\ args = [force |-> FALSE, strict |-> FALSE, sets |-> <<>>]
    /\ existing = {}
    /\ portage_sets = <<>>
    /\ pc = "idle"
    /\ k = 0
    /\ checks = <<>>
    /\ written = <<>>
    /\ status = -1

-----------------------------------------------------------------------------
\* A PortageSet over a one-line file, used through its methods

Init ==
    /\ src \in Inputs
    /\ pset = PortageSet
    /\ last = NoCall
    /\ RunIdle

HasEntry == pset.state = "imported" /\ pset.entries # <<>>
TheEntry == pset.entries[1]

\* portage_set.import_set()
ImportSet ==
    /\ pset.state = "new"
    /\ pset' = import_set("s", <<Line>>)
    /\ last' = [op |-> "import_set", prev |-> last.op]
    /\ UNCHANGED <<src, runVars>>

\* entry.check()
Check ==
    /\ HasEntry
    /\ \E db \in DBs :
         last' = [op |-> "check", prev |-> last.op, res |-> entry_check(TheEntry, db)]
    /\ UNCHANGED <<src, pset, runVars>>

\* A pretty_print that colors self.uses in place
PrettyPrintInPlace ==
    /\ HasEntry
    /\ \E color \in BOOLEAN :
         /\ last' = [op |-> "pretty_print", prev |-> last.op, color |-> color,
                     ret |-> IF TheEntry.kind = "Comment"
                             THEN comment_pretty_print(TheEntry, <<>>, color)
                             ELSE ebuild_pretty_print(TheEntry, color)]
         /\ pset' = IF TheEntry.kind = "EBuild" /\ color
                    THEN [pset EXCEPT !.entries[1].uses =
                            [i \in 1..Len(@) |-> pretty_use(@[i])]]
                    ELSE pset
    /\ UNCHANGED <<src, runVars>>

\* entry.pretty_print(color) / entry.pretty_print('', color)
PrettyPrint ==
    /\ HasEntry
    /\ \E color \in BOOLEAN :
         last' = [op |-> "pretty_print", prev |-> last.op, color |-> color,
                  ret |-> IF TheEntry.kind = "Comment"
                          THEN comment_pretty_print(TheEntry, <<>>, color)
                          ELSE ebuild_pretty_print(TheEntry, color)]
    /\ UNCHANGED <<src, pset, runVars>>

\* entry.formatted(destination)
Formatted ==
    /\ HasEntry
    /\ \E i \in 1..Len(Destinations) :
         last' = [op |-> "formatted", prev |-> last.op,
                  destination |-> Destinations[i],
                  ret |-> formatted(TheEntry, Destinations[i])]
    /\ UNCHANGED <<src, pset, runVars>>

Next == ImportSet \/ Check \/ PrettyPrint \/ Formatted

Spec == Init /\ [][Next]_vars

-----------------------------------------------------------------------------
\* One run of main()

\* The set files a command line can name, by path.name
Files == {"ok", "ws", "marker", "gone"}

FileExists(f) == f # "gone"

\* open(path).read().splitlines() of each file that exists
Disk(f) ==
    CASE f = "ok"     -> << Render(<<Space, Tab>>, <<TokHashA>>),
                            Render(<<>>, <<TokBang, TokA, TokPlusB, TokDashA>>),
                            <<>>,
                            Render(<<>>, <<TokDash, TokA>>) >>
      [] f = "ws"     -> << Render(<<>>, <<TokA>>), <<Space, Tab>> >>
      [] f = "marker" -> << Render(<<>>, <<TokBang, TokDash, TokA>>),
                            Render(<<>>, <<TokDash, TokBang, TokB, TokPlusA>>),
                            Render(<<>>, <<TokDash>>) >>

\* <output>/<destination>/<set name>
OutPath(destination, name) == <<destination, name>>

AllOutPaths ==
    {OutPath(Destinations[i], f) : i \in 1..Len(Destinations), f \in Files}

RunInit ==
    /\ args \in [force  : BOOLEAN,
                 strict : BOOLEAN,
                 sets   : SeqsUpTo(Files, MaxSets) \ {<<>>}]
    /\ existing \in {{}} \cup {{p} : p \in AllOutPaths}
    /\ portage_sets = [i \in 1..Len(args.sets) |-> PortageSet]
    /\ pc = "import"
    /\ k = 1
    /\ checks = <<>>
    /\ written = <<>>
    /\ status = -1
    /\ src = [lead |-> <<>>, toks |-> <<>>]
    /\ pset = PortageSet
    /\ last = NoCall

\* portage_set.import_set() of the k-th set; an exception is not caught
\* and ends the process
RunImport ==
    /\ pc = "import"
    /\ IF ~FileExists(args.sets[k])
       THEN /\ pc' = "done"
            /\ status' = 1
            /\ UNCHANGED portage_sets
       ELSE LET ps == import_set(args.sets[k], Disk(args.sets[k]))
            IN  /\ portage_sets' = [portage_sets EXCEPT ![k] = ps]
                /\ pc' = IF ps.state = "raised" THEN "done" ELSE "check"
                /\ status' = IF ps.state = "raised" THEN 1 ELSE status
    /\ UNCHANGED <<args, existing, k, checks, written, entryVars>>

\* portage_set.check() of the k-th set: [e.check() for e in self.entries]
RunCheck ==
    /\ pc = "check"
    /\ LET entries == portage_sets[k].entries
           ebuilds == {j \in 1..Len(entries) : entries[j].kind = "EBuild"}
       IN  \E dbs \in [ebuilds -> DBs] :
             checks' = checks \o
                 [j \in 1..Len(entries) |->
                    [set     |-> k,
                     line_no |-> entries[j].line_no,
                     ret     |-> IF j \in ebuilds
                                 THEN ebuild_check(entries[j], dbs[j]).ret
                                 ELSE comment_check.ret]]
    /\ IF k < Len(args.sets)
       THEN pc' = "import" /\ k' = k + 1
       ELSE pc' = "breakpoint" /\ k' = k
    /\ UNCHANGED <<args, existing, portage_sets, written, status, entryVars>>

\* pdb.set_trace(): the debugger is told to continue
BreakpointContinue ==
    /\ pc = "breakpoint"
    /\ pc' = "write"
    /\ k' = 1
    /\ UNCHANGED <<args, existing, portage_sets, checks, written, status,
                   entryVars>>

\* pdb.set_trace(): the debugger is told to quit
BreakpointQuit ==
    /\ pc = "breakpoint"
    /\ pc' = "done"
    /\ status' = 1
    /\ UNCHANGED <<args, existing, portage_sets, k, checks, written, entryVars>>

\* The k-th pair of product(destinations, portage_sets): open the file for
\* writing and print every entry into it
WriteFile ==
    /\ pc = "write"
    /\ LET n           == Len(portage_sets)
           destination == Destinations[((k - 1) \div n) + 1]
           i           == ((k - 1) % n) + 1
           entries     == portage_sets[i].entries
       IN  /\ written' = Append(written,
                 [path  |-> OutPath(destination, args.sets[i]),
                  lines |-> [j \in 1..Len(entries) |->
                               formatted(entries[j], destination)]])
           /\ IF k < Len(Destinations) * n
              THEN pc' = "write" /\ k' = k + 1 /\ status' = status
              ELSE pc' = "done" /\ k' = k /\ status' = 0
    /\ UNCHANGED <<args, existing, portage_sets, checks, entryVars>>

RunNext ==
    RunImport \/ RunCheck \/ BreakpointContinue \/ BreakpointQuit \/ WriteFile

SpecRun == RunInit /\ [][RunNext]_vars

-----------------------------------------------------------------------------
\* What the input line says, read off its tokens

HasMarker  == src.toks # <<>> /\ src.toks[1] \in {TokBang, TokDash}
Body       == IF HasMarker THEN Tail(src.toks) ELSE src.toks
AtomToken  == Body[1]
FlagTokens == Tail(Body)
IsEBuild   == HasEntry /\ TheEntry.kind = "EBuild"

Count(x, l) == Cardinality({i \in 1..Len(l) : l[i] = x})
IsPermutation(a, b) ==
    /\ Len(a) = Len(b)
    /\ \A i \in 1..Len(a) : Count(a[i], a) = Count(a[i], b)

Bucket(t) == IF t[1] = Plus THEN 1 ELSE IF t[1] = Dash THEN 2 ELSE 0

\* bare flags, then '+' flags, then '-' flags, each run ascending
ThreeBuckets(u) ==
    \A i, j \in 1..Len(u) :
        i < j => \/ Bucket(u[i]) < Bucket(u[j])
                 \/ Bucket(u[i]) = Bucket(u[j]) /\ ~StrLess(u[j], u[i])

\* C1: the flag list an EBuild holds after parsing, and the one formatted
\* emits for package.use, is a permutation of the line's flag tokens
\* (duplicates kept) laid out as bare flags, '+' flags, '-' flags, each
\* bucket in ascending order.
C1_SortedBuckets ==
    IsEBuild =>
        /\ IsPermutation(TheEntry.uses, FlagTokens)
        /\ ThreeBuckets(TheEntry.uses)
        /\ (last.op = "formatted" /\ last.destination = "package.use"
            /\ FlagTokens # <<>>) =>
               /\ split(last.ret)[1] = AtomToken
               /\ IsPermutation(Tail(split(last.ret)), FlagTokens)
               /\ ThreeBuckets(Tail(split(last.ret)))

C1_Witness ==
    /\ IsEBuild
    /\ src.toks = <<TokA, TokDashA, TokPlusB, TokB>>
    /\ TheEntry.uses = <<TokB, TokPlusB, TokDashA>>
    /\ last.op = "formatted" /\ last.destination = "package.use"

\* C2 as stated: for every valid EBuild line, with no marker, a '!' marker
\* or a '-' marker, formatting the parsed entry to 'sets' returns exactly
\* the atom token.
C2_RoundTripEveryMarker ==
    (IsEBuild /\ last.op = "formatted" /\ last.destination = "sets") =>
        last.ret = AtomToken

\* C2 amended: formatting the parsed entry to 'sets' returns exactly the
\* atom token for a line with no marker or a '!' marker, and
\* '#<atom> (skipped)' for a line with a '-' marker.
C2_RoundTrip ==
    (IsEBuild /\ last.op = "formatted" /\ last.destination = "sets") =>
        last.ret = IF src.toks[1] = TokDash
                   THEN <<Hash>> \o AtomToken \o SkippedSuffix
                   ELSE AtomToken

C2_Witness ==
    /\ IsEBuild
    /\ src.toks = <<TokBang, TokA, TokPlusA>>
    /\ last.op = "formatted" /\ last.destination = "sets"
    /\ last.ret = TokA

\* C3: a skipped EBuild formats to '#<cpv> (skipped)' for 'sets'; for
\* 'package.accept_keywords' and 'package.use' it formats as the EBuild of
\* the same cpv, keyword and uses that is not skipped does, whatever the
\* keyword value: '<cpv>' or '#<cpv>' by keyword, '<cpv> <flags>' or '#<cpv>'
\* by whether it has flags.
C3_SkipOnlySets ==
    (IsEBuild /\ TheEntry.skip /\ last.op = "formatted") =>
        LET e == TheEntry
            d == last.destination
        IN  /\ d = "sets" => last.ret = <<Hash>> \o AtomToken \o SkippedSuffix
            /\ d = "package.accept_keywords" =>
                 last.ret = IF e.keyword THEN AtomToken ELSE <<Hash>> \o AtomToken
            /\ d = "package.use" =>
                 last.ret = IF FlagTokens # <<>>
                            THEN AtomToken \o <<Space>> \o join(e.uses)
                            ELSE <<Hash>> \o AtomToken
            /\ \A kw \in BOOLEAN :
                 \A dd \in {"package.accept_keywords", "package.use"} :
                   formatted([e EXCEPT !.keyword = kw, !.skip = TRUE], dd)
                     = formatted([e EXCEPT !.keyword = kw, !.skip = FALSE], dd)

C3_Witness ==
    /\ IsEBuild /\ TheEntry.skip
    /\ last.op = "formatted" /\ last.destination = "package.use"
    /\ src.toks = <<TokDash, TokA, TokPlusA>>
    /\ last.ret = TokA \o <<Space>> \o TokPlusA

\* Bare names of a list of flag tokens
BareNames(toks) ==
    {IF t[1] = Plus \/ t[1] = Dash THEN SubSeq(t, 2, Len(t)) ELSE t :
       t \in SetOf(toks)}

Checked == IsEBuild /\ last.op = "check"

\* C6: check asks the atom-syntax predicate, then the best visible match,
\* then IUSE, and stops at the first failure: a rejected atom returns false
\* with no further query, an atom without a match returns false with no IUSE
\* query, and true is returned only when all three pass.
C6_ShortCircuit ==
    Checked =>
        LET r == last.res
            n == Len(r.log)
        IN  /\ n >= 1 /\ r.log[1].q = "isvalidatom"
            /\ r.log[1].arg = AtomToken
            /\ ~r.log[1].ans => n = 1 /\ ~r.ret
            /\ r.log[1].ans =>
                 /\ n >= 2 /\ r.log[2].q = "xmatch" /\ r.log[2].arg = AtomToken
                 /\ r.log[2].ans = <<>> => n = 2 /\ ~r.ret
                 /\ r.log[2].ans # <<>> =>
                      /\ n = 3 /\ r.log[3].q = "aux_get"
                      /\ r.log[3].arg = r.log[2].ans
            /\ r.ret => /\ n = 3
                        /\ BareNames(FlagTokens)
                             \subseteq BareNames(split(r.log[3].ans))

C6_Witness ==
    /\ Checked
    /\ Len(last.res.log) = 1
    /\ ~last.res.log[1].ans
    /\ ~last.res.ret

\* C7: for a resolvable atom the flags reported unknown are exactly the
\* requested flags, one leading sign stripped, minus the declared IUSE
\* flags, one leading sign stripped; check fails on the USE-flag step
\* exactly when that set is not empty.
C7_UnknownUses ==
    (Checked /\ Len(last.res.log) = 3) =>
        LET expected == BareNames(FlagTokens)
                          \ BareNames(split(last.res.log[3].ans))
        IN  /\ last.res.unknown = expected
            /\ last.res.ret = (expected = {})

C7_Witness ==
    /\ Checked /\ Len(last.res.log) = 3
    /\ src.toks = <<TokA, TokDashA, TokPlusB>>
    /\ last.res.log[3].ans = TokA
    /\ last.res.unknown = {TokB}
    /\ ~last.res.ret

\* C10: the display rendering and check leave the entry as parsing made
\* it, so the three destination strings are those of the freshly parsed
\* entry whether or not pretty_print or check ran before, with color on or
\* off.
C10_DisplayIsCosmetic ==
    HasEntry =>
        LET fresh == import_set("s", <<Line>>).entries[1]
        IN  /\ TheEntry = fresh
            /\ last.op = "formatted" =>
                 last.ret = formatted(fresh, last.destination)

C10_Witness ==
    /\ IsEBuild
    /\ FlagTokens # <<>>
    /\ last.op = "formatted" /\ last.prev = "pretty_print"
    /\ last.destination = "package.use"

-----------------------------------------------------------------------------
\* What the set files say, read off their lines

\* blank, or the first character that is no whitespace is '#'
RECURSIVE IsCommentLine(_)
IsCommentLine(line) ==
    IF line = <<>> THEN TRUE
    ELSE IF line[1] \in WhiteSpace THEN IsCommentLine(Tail(line))
    ELSE line[1] = Hash

\* a marker token and nothing else
IsMarkerOnly(line) == split(line) \in {<<(<<Bang>>)>>, <<(<<Dash>>)>>}

Loaded(i) == portage_sets[i].state # "new"

\* C4 as stated: importing a file of n lines yields n entries, the i-th
\* with line number i and the i-th line's text, a Comment exactly when the
\* line is blank or starts with '#' after whitespace and an EBuild
\* otherwise; no line makes the import fail by how it is classified (a line
\* that is only a marker is left to C5).
C4_OneEntryPerLine ==
    \A i \in 1..Len(portage_sets) :
        LET ps    == portage_sets[i]
            lines == Disk(args.sets[i])
        IN  (/\ Loaded(i)
             /\ \A j \in 1..Len(lines) : ~IsMarkerOnly(lines[j])) =>
                /\ ps.state = "imported"
                /\ Len(ps.entries) = Len(lines)
                /\ \A j \in 1..Len(ps.entries) :
                     /\ ps.entries[j].line_no = j
                     /\ ps.entries[j].line = lines[j]
                     /\ ps.entries[j].kind =
                          IF IsCommentLine(lines[j]) THEN "Comment" ELSE "EBuild"

\* C5: a line that is only a marker raises and ends the loading of its set
\* and the run; every EBuild has a non-empty cpv, is not both keyworded and
\* skipped, and has consumed at most the one marker token in front of its
\* atom.
C5_MarkerOnlyAborts ==
    \A i \in 1..Len(portage_sets) :
        LET ps    == portage_sets[i]
            lines == Disk(args.sets[i])
        IN  /\ (Loaded(i) /\ \E j \in 1..Len(lines) : IsMarkerOnly(lines[j])) =>
                 /\ ps.state = "raised"
                 /\ \A j \in 1..Len(ps.entries) : ~IsMarkerOnly(lines[j])
                 /\ \A j \in 1..Len(ps.entries) : ps.entries[j].line = lines[j]
                 /\ pc = "done" /\ status # 0 /\ written = <<>>
                 /\ \A h \in (i + 1)..Len(portage_sets) : ~Loaded(h)
            /\ \A j \in 1..Len(ps.entries) :
                 LET e == ps.entries[j]
                     t == split(e.line)
                 IN  e.kind = "EBuild" =>
                       /\ e.cpv # <<>>
                       /\ ~(e.keyword /\ e.skip)
                       /\ e.keyword = (t[1] = <<Bang>>)
                       /\ e.skip = (t[1] = <<Dash>>)
                       /\ LET m == IF e.keyword \/ e.skip THEN 1 ELSE 0
                          IN  /\ e.cpv = t[m + 1]
                              /\ Len(e.uses) = Len(t) - m - 1

C5_Witness ==
    /\ args.sets[1] = "marker"
    /\ portage_sets[1].state = "raised"
    /\ Len(portage_sets[1].entries) = 2
    /\ portage_sets[1].entries[1].keyword
    /\ portage_sets[1].entries[1].cpv = TokDash
    /\ portage_sets[1].entries[2].skip
    /\ portage_sets[1].entries[2].cpv = TokBang
    /\ pc = "done" /\ status = 1

\* Output paths of this run
RunOutPaths ==
    {OutPath(Destinations[d], args.sets[i]) :
       d \in 1..Len(Destinations), i \in 1..Len(args.sets)}

\* C8 as stated: without force, if any output path of the run exists
\* already, no output file is opened for writing.
C8_NoPartialOverwrite ==
    (~args.force /\ existing \cap RunOutPaths # {}) => written = <<>>

\* C9 as stated: check is called on every entry of every imported set, and
\* with strict on and a failed entry the process writes no output file and
\* ends with a non-zero status.
C9_StrictAfterAllChecks ==
    /\ \A i \in 1..Len(portage_sets) :
         (portage_sets[i].state = "imported" /\ (i < k \/ pc # "check")) =>
            \A j \in 1..Len(portage_sets[i].entries) :
               \E c \in 1..Len(checks) :
                  /\ checks[c].set = i
                  /\ checks[c].line_no = portage_sets[i].entries[j].line_no
    /\ (args.strict /\ \E c \in 1..Len(checks) : ~checks[c].ret) =>
         /\ written = <<>>
         /\ pc = "done" => status # 0

====
